---- MODULE Spec2Model ----
(***************************************************************************)
(* Model of src/attr.rs: the parser of `#[derivative(...)]` attributes.    *)
(*                                                                         *)
(* Input::from_ast and Field::from_ast walk a declaration's attributes     *)
(* (for_all_attr!), read every item of every `derivative(...)` attribute   *)
(* (read_items), dispatch on the item's name and then walk the item's      *)
(* options (match_attributes!).  The model follows these loops: one action *)
(* per loop step.  The declaration is read as the loops reach it: an       *)
(* attribute, an item and the (name, "string") pair of a list child are    *)
(* drawn when the code first looks at them.  read_items checks the shape   *)
(* of the whole option list before any option is used, so an item carries  *)
(* the shape of every child (word, list, name = string, name = other       *)
(* literal); read_items looks at nothing else of a malformed child.        *)
(*                                                                         *)
(* Option<T> is a sequence: None is <<>>, Some(x) is <<x>>.                *)
(* Result<T, String> is a record: Ok(x), Err(message).  A message built by *)
(* format! is the tuple of its fixed text and its argument; the backquotes *)
(* of the messages are left out.                                           *)
(***************************************************************************)
EXTENDS Integers, Sequences, FiniteSets, TLC

\* Syntax nodes (items and their options) of the `derivative(...)` attributes
\* of one declaration.
MaxNodes == 5

None == <<>>
Some(x) == <<x>>
Ok(x) == [ok |-> TRUE, val |-> x, err |-> <<>>]
Err(m) == [ok |-> FALSE, val |-> <<>>, err |-> m]
Pending == [ok |-> FALSE, val |-> <<>>, err |-> <<"pending">>]

(***************************************************************************)
(* The alphabet of the declarations.                                       *)
(***************************************************************************)
\* The names an item of `derivative(...)` can have; Hash is not a trait of
\* this crate.
TraitNames == {"Clone", "Copy", "Debug", "Default", "Eq", "PartialEq", "Hash"}

\* The names an option can have; bogus is no option of any trait.
Keys == {"bound", "clone_from", "transparent", "new", "feature_allow_slow_enum",
         "format_with", "value", "compare_with", "ignore", "bogus"}

\* The strings an option can be given.
StrValues == {"true", "false", "", "T: Copy", "U: Clone, V: Eq", "fmt::f", "fmt::g"}

\* syn::Lit: a string literal, or another literal.
LitStr(s) == <<"Str", s>>
LitInt == <<"Int", "1">>

\* The children of a syn::MetaItem::List, by shape.
ChildWord == <<"Word">>
ChildList == <<"List">>
ChildStr == <<"NameValue", "Str">>
ChildInt == <<"NameValue", "Int">>
ChildShapes == {ChildWord, ChildList, ChildStr, ChildInt}

RECURSIVE SeqsUpTo(_, _)
SeqsUpTo(S, k) ==
  IF k = 0 THEN {<<>>}
  ELSE LET shorter == SeqsUpTo(S, k - 1)
       IN shorter \cup {Append(s, x) : s \in {t \in shorter : Len(t) = k - 1}, x \in S}

NoLit == <<"None", "">>
NoItem == [kind |-> "None", name |-> "", lit |-> NoLit, children |-> <<>>]
ItemWord(t) == [kind |-> "Word", name |-> t, lit |-> NoLit, children |-> <<>>]
ItemNameValue(t, l) == [kind |-> "NameValue", name |-> t, lit |-> l, children |-> <<>>]
ItemList(t, cs) == [kind |-> "List", name |-> t, lit |-> NoLit, children |-> cs]

\* The items that fit in k nodes: an item is one node, and so is each option.
MetaItems(k) ==
  IF k < 1 THEN {}
  ELSE {ItemWord(t) : t \in TraitNames}
       \cup (IF k < 2 THEN {}
             ELSE {ItemNameValue(t, l) : t \in TraitNames,
                                         l \in {LitStr(s) : s \in Keys} \cup {LitInt}})
       \cup {ItemList(t, cs) : t \in TraitNames, cs \in SeqsUpTo(ChildShapes, k - 1)}

NoAttr == [kind |-> "None", name |-> ""]
Attribute(k, n) == [kind |-> k, name |-> n]
Attributes == {Attribute("List", "derivative"), Attribute("Word", "derivative"),
               Attribute("NameValue", "derivative"), Attribute("List", "derive")}

\* An option the option loop has not looked at yet: a (name, Some(string)) pair.
Slot == <<"_", <<"_">>>>

(***************************************************************************)
(* The configuration records.                                              *)
(***************************************************************************)
Input_default ==
  [clone |-> None, copy |-> None, debug |-> None, default |-> None,
   eq |-> None, partial_eq |-> None]

InputClone_default == [bounds |-> None, clone_from |-> FALSE]
InputCopy_default == [bounds |-> None]
InputDebug_default == [bounds |-> None, transparent |-> FALSE]
InputDefault_default == [bounds |-> None, new |-> FALSE]
InputEq_default == [bounds |-> None]
InputPartialEq_default == [bounds |-> None, on_enum |-> FALSE]

Field_default ==
  [clone |-> [bounds |-> None],
   copy_bound |-> None,
   debug |-> [bounds |-> None, format_with |-> None, ignore |-> FALSE],
   default |-> [bounds |-> None, value |-> None],
   eq_bound |-> None,
   partial_eq |-> [bounds |-> None, compare_with |-> None, ignore |-> FALSE]]

(***************************************************************************)
(* The grammar parser (syn), by its results on the strings of the model.   *)
(***************************************************************************)
parse_where_clause(src) ==
  CASE src = <<"where", "T: Copy">> -> Ok(<<"T: Copy">>)
    [] src = <<"where", "U: Clone, V: Eq">> -> Ok(<<"U: Clone", "V: Eq">>)
    [] OTHER -> Err(<<"failed to parse where clause", src[2]>>)

parse_path(s) ==
  IF s \in {"fmt::f", "fmt::g"} THEN Ok(<<"path", s>>)
  ELSE Err(<<"failed to parse path", s>>)

parse_expr(s) ==
  IF s \in {"true", "false", "fmt::f", "fmt::g"} THEN Ok(<<"expr", s>>)
  ELSE Err(<<"failed to parse expr", s>>)

(***************************************************************************)
(* The option-value primitives.                                            *)
(***************************************************************************)
str_or_err(lit) ==
  IF lit[1] = "Str" THEN Ok(lit[2]) ELSE Err(<<"Expected string">>)

\* parse_boolean_meta_item without the `None => Ok(default)` arm's default.
parse_boolean_meta_item_no_default(item, default, name) ==
  CASE item = Some("true") -> Ok(TRUE)
    [] item = Some("false") -> Ok(FALSE)
    [] item # None -> Err(<<"Invalid value for", name>>)
    [] OTHER -> Ok(FALSE)

parse_boolean_meta_item(item, default, name) ==
  CASE item = Some("true") -> Ok(TRUE)
    [] item = Some("false") -> Ok(FALSE)
    [] item # None -> Err(<<"Invalid value for", name>>)
    [] OTHER -> Ok(default)

\* parse_bound with `bounds` started afresh: a later bound overwrites.
parse_bound_overwrite(opt_bounds, value) ==
  IF value = None THEN Err(<<"bound needs a value">>)
  ELSE IF value[1] # ""
       THEN LET where_clause == parse_where_clause(<<"where", value[1]>>)
            IN IF where_clause.ok THEN Ok(Some(where_clause.val)) ELSE where_clause
       ELSE Ok(Some(<<>>))

\* parse_bound taking a missing value for the empty string.
parse_bound_optional(opt_bounds, value) ==
  LET bounds == IF opt_bounds = None THEN <<>> ELSE opt_bounds[1]
  IN IF value = None \/ value = Some("") THEN Ok(Some(bounds))
     ELSE LET where_clause == parse_where_clause(<<"where", value[1]>>)
          IN IF where_clause.ok THEN Ok(Some(bounds \o where_clause.val))
             ELSE where_clause

\* parse_bound without the `if !bound.is_empty()` guard.
parse_bound_unguarded(opt_bounds, value) ==
  LET bounds == IF opt_bounds = None THEN <<>> ELSE opt_bounds[1]
  IN IF value = None THEN Err(<<"bound needs a value">>)
     ELSE LET where_clause == parse_where_clause(<<"where", value[1]>>)
          IN IF where_clause.ok THEN Ok(Some(bounds \o where_clause.val))
             ELSE where_clause

\* The new value of opt_bounds, or the error.
parse_bound(opt_bounds, value) ==
  LET bounds == IF opt_bounds = None THEN <<>> ELSE opt_bounds[1]
  IN IF value = None THEN Err(<<"bound needs a value">>)
     ELSE LET bound == value[1]
          IN IF bound # ""
             THEN LET where_clause == parse_where_clause(<<"where", bound>>)
                  IN IF where_clause.ok THEN Ok(Some(bounds \o where_clause.val))
                     ELSE where_clause
             ELSE Ok(Some(bounds))

(***************************************************************************)
(* The annotation reader.                                                  *)
(***************************************************************************)
\* read_values taking a nested word or list as an option without a value.
RECURSIVE read_values_lenient(_)
read_values_lenient(children) ==
  IF children = <<>> THEN Ok(<<>>)
  ELSE LET rest == read_values_lenient(Tail(children))
       IN IF rest.ok THEN Ok(<<Slot>> \o rest.val) ELSE rest

RECURSIVE read_values(_)
read_values(children) ==
  IF children = <<>> THEN Ok(<<>>)
  ELSE LET child == Head(children)
       IN IF child[1] \in {"Word", "List"} THEN Err(<<"Expected named value">>)
          ELSE LET value == str_or_err(<<child[2], "">>)
               IN IF ~value.ok THEN value
                  ELSE LET rest == read_values(Tail(children))
                       IN IF rest.ok THEN Ok(<<Slot>> \o rest.val) ELSE rest

\* Ok([name, values]) or the error.
read_items(item) ==
  CASE item.kind = "Word" -> Ok([name |-> item.name, values |-> <<>>])
    [] item.kind = "List" ->
         LET values == read_values(item.children)
         IN IF values.ok THEN Ok([name |-> item.name, values |-> values.val])
            ELSE values
    [] OTHER ->
         LET value == str_or_err(item.lit)
         IN IF value.ok
            THEN Ok([name |-> item.name, values |-> <<<<value.val, None>>>>])
            ELSE value

\* derivative_attribute without the guard on the list's name.
derivative_attribute_any_list(a) ==
  IF a.kind = "List" THEN Some(a.name) ELSE None

derivative_attribute(a) ==
  IF a.kind = "List" /\ a.name = "derivative" THEN Some(a.name) ELSE None

(***************************************************************************)
(* The accumulators: one arm per trait and option.                         *)
(***************************************************************************)
\* The field of Input for a trait.
InputSlot(t) ==
  CASE t = "Clone" -> "clone"
    [] t = "Copy" -> "copy"
    [] t = "Debug" -> "debug"
    [] t = "Default" -> "default"
    [] t = "Eq" -> "eq"
    [] t = "PartialEq" -> "partial_eq"

InputTraits == {"Clone", "Copy", "Debug", "Default", "Eq", "PartialEq"}

\* Field::from_ast with an arm for each of the six traits.
FieldTraits_six == InputTraits

FieldTraits == {"Debug", "Default", "Eq", "PartialEq"}

SubDefault(t) ==
  CASE t = "Clone" -> InputClone_default
    [] t = "Copy" -> InputCopy_default
    [] t = "Debug" -> InputDebug_default
    [] t = "Default" -> InputDefault_default
    [] t = "Eq" -> InputEq_default
    [] t = "PartialEq" -> InputPartialEq_default

\* match_attributes! starting every block from the default sub-record.
TakeOrDefault_afresh(t, o) == SubDefault(t)

\* $unwraped.take().unwrap_or_default()
TakeOrDefault(t, o) == IF o = None THEN SubDefault(t) ELSE o[1]

\* The fall-through arm of match_attributes! with the message of
\* for_all_attr!'s.
UnknownAttribute_as_trait(n) == Err(<<"unknown trait", n>>)

\* The fall-through arm of match_attributes!.
UnknownAttribute(n) == Err(<<"unknown attribute", n>>)

\* One round of the option loop of Input::from_ast: the new sub-record, or
\* the error.
InputArm(t, r, n, v) ==
  LET bound == parse_bound(r.bounds, v)
      setBound == IF bound.ok THEN Ok([r EXCEPT !.bounds = bound.val]) ELSE bound
      unknown == UnknownAttribute(n)
  IN CASE n = "bound" -> setBound
       [] t = "Clone" /\ n = "clone_from" ->
            LET b == parse_boolean_meta_item(v, TRUE, "clone_from")
            IN IF b.ok THEN Ok([r EXCEPT !.clone_from = b.val]) ELSE b
       [] t = "Debug" /\ n = "transparent" ->
            LET b == parse_boolean_meta_item(v, TRUE, "transparent")
            IN IF b.ok THEN Ok([r EXCEPT !.transparent = b.val]) ELSE b
       [] t = "Default" /\ n = "new" ->
            LET b == parse_boolean_meta_item(v, TRUE, "new")
            IN IF b.ok THEN Ok([r EXCEPT !.new = b.val]) ELSE b
       [] t = "PartialEq" /\ n = "feature_allow_slow_enum" ->
            LET b == parse_boolean_meta_item(v, TRUE, "feature_allow_slow_enum")
            IN IF b.ok THEN Ok([r EXCEPT !.on_enum = b.val]) ELSE b
       [] OTHER -> unknown

\* One round of the option loop of Field::from_ast: the new Field, or the error.
FieldArm(t, o, n, v) ==
  LET unknown == UnknownAttribute(n)
  IN CASE t = "Debug" /\ n = "bound" ->
            LET b == parse_bound(o.debug.bounds, v)
            IN IF b.ok THEN Ok([o EXCEPT !.debug.bounds = b.val]) ELSE b
       [] t = "Debug" /\ n = "format_with" ->
            IF v = None THEN Err(<<"format_with needs a value">>)
            ELSE LET p == parse_path(v[1])
                 IN IF p.ok THEN Ok([o EXCEPT !.debug.format_with = Some(p.val)]) ELSE p
       [] t = "Debug" /\ n = "ignore" ->
            LET b == parse_boolean_meta_item(v, TRUE, "ignore")
            IN IF b.ok THEN Ok([o EXCEPT !.debug.ignore = b.val]) ELSE b
       [] t = "Default" /\ n = "bound" ->
            LET b == parse_bound(o.default.bounds, v)
            IN IF b.ok THEN Ok([o EXCEPT !.default.bounds = b.val]) ELSE b
       [] t = "Default" /\ n = "value" ->
            IF v = None THEN Err(<<"value needs a value">>)
            ELSE LET e == parse_expr(v[1])
                 IN IF e.ok THEN Ok([o EXCEPT !.default.value = Some(e.val)]) ELSE e
       [] t = "Eq" /\ n = "bound" ->
            LET b == parse_bound(o.eq_bound, v)
            IN IF b.ok THEN Ok([o EXCEPT !.eq_bound = b.val]) ELSE b
       [] t = "PartialEq" /\ n = "bound" ->
            LET b == parse_bound(o.partial_eq.bounds, v)
            IN IF b.ok THEN Ok([o EXCEPT !.partial_eq.bounds = b.val]) ELSE b
       [] t = "PartialEq" /\ n = "compare_with" ->
            IF v = None THEN Err(<<"compare_with needs a value">>)
            ELSE LET p == parse_path(v[1])
                 IN IF p.ok THEN Ok([o EXCEPT !.partial_eq.compare_with = Some(p.val)]) ELSE p
       [] t = "PartialEq" /\ n = "ignore" ->
            LET b == parse_boolean_meta_item(v, TRUE, "ignore")
            IN IF b.ok THEN Ok([o EXCEPT !.partial_eq.ignore = b.val]) ELSE b
       [] OTHER -> unknown

\* The traits for_all_attr! has an arm for, by scope.
KnownTraits(s) == IF s = "type" THEN InputTraits ELSE FieldTraits

\* The fall-through arm of for_all_attr!.
UnknownTrait(n) == Err(<<"unknown trait", n>>)

(***************************************************************************)
(* The accessors.                                                          *)
(***************************************************************************)
\* clone_bound with unwrap_or_default on the bounds of a present sub-record.
Input_clone_bound_or_empty(i) ==
  IF i.clone = None THEN None
  ELSE IF i.clone[1].bounds = None THEN Some(<<>>) ELSE i.clone[1].bounds

Input_clone_bound(i) == IF i.clone = None THEN None ELSE i.clone[1].bounds
Input_copy_bound(i) == IF i.copy = None THEN None ELSE i.copy[1].bounds
Input_debug_bound(i) == IF i.debug = None THEN None ELSE i.debug[1].bounds
Input_debug_transparent(i) == IF i.debug = None THEN FALSE ELSE i.debug[1].transparent
Input_default_bound(i) == IF i.default = None THEN None ELSE i.default[1].bounds
Input_eq_bound(i) == IF i.eq = None THEN None ELSE i.eq[1].bounds
Input_partial_eq_bound(i) == IF i.partial_eq = None THEN None ELSE i.partial_eq[1].bounds
Input_partial_eq_on_enum(i) == IF i.partial_eq = None THEN FALSE ELSE i.partial_eq[1].on_enum

Field_clone_bound(o) == o.clone.bounds
Field_copy_bound(o) == o.copy_bound
Field_debug_bound(o) == o.debug.bounds
Field_debug_format_with(o) == o.debug.format_with
Field_ignore_debug(o) == o.debug.ignore
Field_default_bound(o) == o.default.bounds
Field_default_value(o) == o.default.value
Field_eq_bound(o) == o.eq_bound
Field_partial_eq_bound(o) == o.partial_eq.bounds
Field_partial_eq_compare_with(o) == o.partial_eq.compare_with
Field_ignore_partial_eq(o) == o.partial_eq.ignore

(***************************************************************************)
(* The state of one from_ast call.                                         *)
(***************************************************************************)
VARIABLES
  scope,     \* "type": Input::from_ast; "field": Field::from_ast
  pc,        \* "attrs", "items", "values": the loop the call is in; "done"
  attr,      \* the attribute the outer loop is at
  metaitem,  \* the item the item loop is at
  trait,     \* the name of that item, once read
  values,    \* the options of that item the option loop has yet to take
  idx,       \* the options of that item the option loop has taken
  name,      \* the option the option loop is at: its name,
  value,     \*   and its value
  rec,       \* Input::from_ast: the sub-record taken out of `input`
  input,     \* Input::from_ast: `input`
  out,       \* Field::from_ast: `out`
  ret,       \* the call's result, once it returned
  nodes,     \* the syntax nodes read so far
  seen,      \* the item names read so far in `derivative(...)` lists
  given      \* per trait, the strings of the bound options taken so far

vars == <<scope, pc, attr, metaitem, trait, values, idx, name, value, rec, input,
          out, ret, nodes, seen, given>>

NoRec == [bounds |-> None]
NoGiven == [t \in InputTraits |-> <<>>]

Init ==
  /\ scope \in {"type", "field"}
  /\ pc = "attrs"
  /\ attr = NoAttr
  /\ metaitem = NoItem
  /\ trait = ""
  /\ values = <<>>
  /\ idx = 0
  /\ name = ""
  /\ value = None
  /\ rec = NoRec
  /\ input = Input_default
  /\ out = Field_default
  /\ ret = Pending
  /\ nodes = 0
  /\ seen = {}
  /\ given = NoGiven

\* `return Err(..)`, also through try!: the locals are dropped.
ReturnErr(e) ==
  /\ ret' = e
  /\ pc' = "done"
  /\ rec' = NoRec
  /\ input' = Input_default
  /\ out' = Field_default
  /\ values' = <<>>
  /\ nodes' = 0
  /\ seen' = {}
  /\ given' = NoGiven

\* The outer loop takes the next attribute; filter_map(derivative_attribute)
\* hands the loop body the `derivative(...)` lists and drops the others.
NextAttr ==
  /\ pc = "attrs"
  /\ \E a \in Attributes :
       IF derivative_attribute(a) # None
       THEN attr' = a /\ pc' = "items"
       ELSE attr' = attr /\ pc' = "attrs"
  /\ UNCHANGED <<scope, metaitem, trait, values, idx, name, value, rec, input, out,
                 ret, nodes, seen, given>>

\* The items of the attribute are exhausted.
EndAttr ==
  /\ pc = "items"
  /\ pc' = "attrs"
  /\ attr' = NoAttr
  /\ UNCHANGED <<scope, metaitem, trait, values, idx, name, value, rec, input,
                 out, ret, nodes, seen, given>>

\* The item loop reads the next item and dispatches on its name.
ReadItem ==
  /\ pc = "items"
  /\ \E item \in MetaItems(MaxNodes - nodes) :
       LET read == read_items(item)
       IN /\ metaitem' = item
          /\ idx' = 0
          /\ name' = ""
          /\ value' = None
          /\ IF ~read.ok
             THEN /\ trait' = ""
                  /\ ReturnErr(read)
             ELSE /\ trait' = read.val.name
                  /\ IF read.val.name \notin KnownTraits(scope)
                     THEN ReturnErr(UnknownTrait(read.val.name))
                     ELSE /\ pc' = "values"
                          /\ values' = read.val.values
                          /\ nodes' = nodes + 1 + Len(read.val.values)
                          /\ seen' = IF attr.kind = "List" /\ attr.name = "derivative"
                                     THEN seen \cup {read.val.name} ELSE seen
                          /\ IF scope = "type"
                             THEN /\ rec' = TakeOrDefault(read.val.name,
                                                          input[InputSlot(read.val.name)])
                                  /\ input' = [input EXCEPT
                                                 ![InputSlot(read.val.name)] = None]
                             ELSE UNCHANGED <<rec, input>>
                          /\ UNCHANGED <<out, ret, given>>
  /\ UNCHANGED <<scope, attr>>

\* The option loop takes the next option of the item.
NextValue ==
  /\ pc = "values"
  /\ values # <<>>
  /\ \E n \in (IF Head(values) = Slot THEN Keys ELSE {Head(values)[1]}),
        v \in (IF Head(values) = Slot THEN {Some(s) : s \in StrValues} ELSE {None}) :
       LET arm == IF scope = "type" THEN InputArm(trait, rec, n, v)
                  ELSE FieldArm(trait, out, n, v)
       IN /\ name' = n
          /\ value' = v
          /\ idx' = idx + 1
          /\ IF ~arm.ok
             THEN ReturnErr(arm)
             ELSE /\ values' = Tail(values)
                  /\ IF scope = "type"
                     THEN rec' = arm.val /\ out' = out
                     ELSE out' = arm.val /\ rec' = rec
                  /\ given' = IF n = "bound" /\ v # None
                              THEN [given EXCEPT ![trait] = Append(@, v[1])]
                              ELSE given
                  /\ UNCHANGED <<pc, input, ret, nodes, seen>>
  /\ UNCHANGED <<scope, attr, metaitem, trait>>

\* The options of the item are exhausted; Input::from_ast stores the
\* sub-record back.  The variables of the loop body go out of scope.
EndValues ==
  /\ pc = "values"
  /\ values = <<>>
  /\ pc' = "items"
  /\ IF scope = "type"
     THEN /\ input' = [input EXCEPT ![InputSlot(trait)] = Some(rec)]
          /\ rec' = NoRec
     ELSE UNCHANGED <<input, rec>>
  /\ metaitem' = NoItem
  /\ trait' = ""
  /\ idx' = 0
  /\ name' = ""
  /\ value' = None
  /\ UNCHANGED <<scope, attr, values, out, ret, nodes, seen, given>>

\* The attributes are exhausted: Ok(input), Ok(out).
ReturnOk ==
  /\ pc = "attrs"
  /\ pc' = "done"
  /\ ret' = Ok(IF scope = "type" THEN "input" ELSE "out")
  /\ UNCHANGED <<scope, attr, metaitem, trait, values, idx, name, value, rec, input,
                 out, nodes, seen, given>>

Next == NextAttr \/ EndAttr \/ ReadItem \/ NextValue \/ EndValues \/ ReturnOk

Spec == Init /\ [][Next]_vars

(***************************************************************************)
(* The configuration as the call would return it.                          *)
(***************************************************************************)
IsErr(r) == ~r.ok /\ r # Pending
Returned == pc = "done" /\ ret.ok

\* Input::from_ast keeps the sub-record of the item it is at in a local.
Sub(t) ==
  IF scope = "type" /\ pc = "values" /\ trait = t THEN Some(rec)
  ELSE input[InputSlot(t)]

InputView ==
  [clone |-> Sub("Clone"), copy |-> Sub("Copy"), debug |-> Sub("Debug"),
   default |-> Sub("Default"), eq |-> Sub("Eq"), partial_eq |-> Sub("PartialEq")]

InputBound(i, t) ==
  CASE t = "Clone" -> Input_clone_bound(i)
    [] t = "Copy" -> Input_copy_bound(i)
    [] t = "Debug" -> Input_debug_bound(i)
    [] t = "Default" -> Input_default_bound(i)
    [] t = "Eq" -> Input_eq_bound(i)
    [] t = "PartialEq" -> Input_partial_eq_bound(i)

FieldBound(o, t) ==
  CASE t = "Clone" -> Field_clone_bound(o)
    [] t = "Copy" -> Field_copy_bound(o)
    [] t = "Debug" -> Field_debug_bound(o)
    [] t = "Default" -> Field_default_bound(o)
    [] t = "Eq" -> Field_eq_bound(o)
    [] t = "PartialEq" -> Field_partial_eq_bound(o)

\* What the bound accessor of trait t returns.
Bound(t) == IF scope = "type" THEN InputBound(InputView, t) ELSE FieldBound(out, t)

(***************************************************************************)
(* C1                                                                      *)
(***************************************************************************)
\* The constraints of the bound strings bs, in the order of bs.
RECURSIVE Constraints(_)
Constraints(bs) ==
  IF bs = <<>> THEN <<>>
  ELSE (IF Head(bs) = "" THEN <<>> ELSE parse_where_clause(<<"where", Head(bs)>>).val)
       \o Constraints(Tail(bs))

\* C1: in a successful from_ast, for every trait of the scope that was given
\* bound options B1..Bn (n >= 1), in one block or over several, the bound
\* accessor returns the constraints of B1, ..., Bn concatenated in the order
\* the options occurred.
C1_BoundsAreConcatenated ==
  Returned =>
    \A t \in KnownTraits(scope) :
      given[t] # <<>> => Bound(t) = Some(Constraints(given[t]))

\* C1 witness: debug was given two bounds, of two constraints and of one, and Copy
\* appeared as well.
C1_Witness ==
  /\ Returned
  /\ scope = "type"
  /\ given["Debug"] = <<"U: Clone, V: Eq", "T: Copy">>
  /\ "Copy" \in seen
  /\ Input_debug_bound(input) = Some(<<"U: Clone", "V: Eq", "T: Copy">>)

(***************************************************************************)
(* C2                                                                      *)
(***************************************************************************)
\* C2: after a successful Input::from_ast each of the six sub-records is
\* present exactly when its trait's name was read as an item of a
\* derivative(...) attribute; when no item was read at all, Input and Field
\* are the all-default configurations.
C2_PresentIffNamed ==
  Returned =>
    /\ scope = "type" =>
         \A t \in InputTraits : (input[InputSlot(t)] # None) <=> (t \in seen)
    /\ seen = {} => input = Input_default /\ out = Field_default

\* C2 witness: clone and Debug were named, and only they are present.
C2_Witness ==
  /\ Returned
  /\ scope = "type"
  /\ seen = {"Clone", "Debug"}
  /\ input.clone # None /\ input.debug # None
  /\ input.copy = None /\ input.eq = None

(***************************************************************************)
(* C3                                                                      *)
(***************************************************************************)
\* The boolean options of a trait, by scope.
BoolOptions(s, t) ==
  IF s = "type"
  THEN CASE t = "Clone" -> {"clone_from"}
         [] t = "Debug" -> {"transparent"}
         [] t = "Default" -> {"new"}
         [] t = "PartialEq" -> {"feature_allow_slow_enum"}
         [] OTHER -> {}
  ELSE CASE t = "Debug" -> {"ignore"}
         [] t = "PartialEq" -> {"ignore"}
         [] OTHER -> {}

\* The boolean option of trait t in the sub-record r (type scope) or in the
\* Field o (field scope).
Flag(s, t, r, o) ==
  IF s = "type"
  THEN CASE t = "Clone" -> r.clone_from
         [] t = "Debug" -> r.transparent
         [] t = "Default" -> r.new
         [] t = "PartialEq" -> r.on_enum
  ELSE CASE t = "Debug" -> o.debug.ignore
         [] t = "PartialEq" -> o.partial_eq.ignore

\* The option loop's round on option (n, v) from the current state.
Round(n, v) ==
  IF scope = "type" THEN InputArm(trait, rec, n, v) ELSE FieldArm(trait, out, n, v)

\* The item is a list whose only child is a bare word: Capability(flag).
BareWordInList ==
  metaitem.kind = "List" /\ metaitem.children = <<ChildWord>>

\* C3 as stated: derivative(Capability(flag)), the flag a bare word inside the
\* list, parses successfully.
C3_Original ==
  (BareWordInList /\ BoolOptions(scope, metaitem.name) # {}) => ~IsErr(ret)

\* C3, amended: for every boolean option, the shorthand
\* derivative(Capability="flag") and derivative(Capability(flag="true")) are
\* both read successfully, the option loop's round on (flag, None) and on
\* (flag, Some("true")) both succeed with the same configuration, the flag
\* in it is true, and the flag is true in the state after such a round; the
\* list form with the bare word is rejected with "Expected named value".
C3_ShorthandIsTrue ==
  /\ \A t \in KnownTraits(scope) : \A n \in BoolOptions(scope, t) :
       /\ read_items(ItemNameValue(t, LitStr(n))) =
            Ok([name |-> t, values |-> <<<<n, None>>>>])
       /\ read_items(ItemList(t, <<ChildStr>>)).ok
  /\ pc = "values" =>
       /\ \A n \in BoolOptions(scope, trait) :
            /\ Round(n, None).ok
            /\ Round(n, None) = Round(n, Some("true"))
            /\ Flag(scope, trait, Round(n, None).val, Round(n, None).val)
       /\ (name \in BoolOptions(scope, trait) /\ value \in {None, Some("true")})
            => Flag(scope, trait, rec, out)
  /\ BareWordInList => ret = Err(<<"Expected named value">>)

\* C3 witness: derivative(Clone="clone_from") on a type has set clone_from.
C3_Witness ==
  /\ scope = "type"
  /\ pc = "values"
  /\ metaitem = ItemNameValue("Clone", LitStr("clone_from"))
  /\ name = "clone_from" /\ value = None
  /\ rec.clone_from

(***************************************************************************)
(* C4                                                                      *)
(***************************************************************************)
\* The scalar settings, as the call would return them: the flags,
FlagsNow ==
  IF scope = "type"
  THEN [k \in {"clone_from", "transparent", "new", "feature_allow_slow_enum"} |->
          CASE k = "clone_from" -> Sub("Clone") # None /\ Sub("Clone")[1].clone_from
            [] k = "transparent" -> Input_debug_transparent(InputView)
            [] k = "new" -> Sub("Default") # None /\ Sub("Default")[1].new
            [] k = "feature_allow_slow_enum" -> Input_partial_eq_on_enum(InputView)]
  ELSE [k \in {"Debug.ignore", "PartialEq.ignore"} |->
          CASE k = "Debug.ignore" -> Field_ignore_debug(out)
            [] k = "PartialEq.ignore" -> Field_ignore_partial_eq(out)]

\* and the named references and the expression of a field.
RefsNow ==
  IF scope = "type" THEN <<>>
  ELSE [k \in {"format_with", "value", "compare_with"} |->
          CASE k = "format_with" -> Field_debug_format_with(out)
            [] k = "value" -> Field_default_value(out)
            [] k = "compare_with" -> Field_partial_eq_compare_with(out)]

\* The setting an option of a trait writes to.
FlagKey(s, t, n) == IF s = "type" THEN n ELSE t \o "." \o n

\* C4: in every step that does not fail, a flag changes only when the step
\* takes that flag's option, and then to the value given (true when bare); a
\* named reference or expression changes only when the step takes its
\* option, and then to the fragment of the string given.  So a later block
\* that does not mention a scalar leaves it as the earlier block set it, and
\* the last occurrence of a scalar decides.
C4_ScalarsKeptOrLast ==
  [][ ~IsErr(ret') =>
        LET took == pc = "values" /\ idx' = idx + 1
        IN /\ \A k \in DOMAIN FlagsNow :
                FlagsNow'[k] =
                  IF took /\ name' \in BoolOptions(scope, trait)
                          /\ FlagKey(scope, trait, name') = k
                  THEN value' # Some("false")
                  ELSE FlagsNow[k]
           /\ \A k \in DOMAIN RefsNow :
                RefsNow'[k] =
                  IF took /\ name' = k
                  THEN Some(<<IF k = "value" THEN "expr" ELSE "path", value'[1]>>)
                  ELSE RefsNow[k]
    ]_vars

\* C4 witness: debug got transparent from an earlier block; the block the call is in has
\* given it a bound and nothing else.
C4_Witness ==
  /\ scope = "type"
  /\ pc = "values"
  /\ trait = "Debug"
  /\ idx = 1 /\ name = "bound" /\ value = Some("U: Clone, V: Eq")
  /\ rec.transparent
  /\ rec.bounds = Some(<<"T: Copy", "U: Clone", "V: Eq">>)

(***************************************************************************)
(* C5                                                                      *)
(***************************************************************************)
\* read_items accepts the item: a word, a name with a string, or a list of
\* names with strings.
WellFormed(item) ==
  \/ item.kind = "Word"
  \/ item.kind = "NameValue" /\ item.lit[1] = "Str"
  \/ item.kind = "List" /\ \A i \in 1..Len(item.children) : item.children[i] = ChildStr

\* The item the call is at is not named after one of the six traits.
UnknownName == metaitem # NoItem /\ metaitem.name \notin InputTraits

\* C5 as stated: an item that is not named after one of the six traits fails
\* with "unknown trait" and its name, whatever its own options are.
C5_Original ==
  UnknownName => ret = Err(<<"unknown trait", metaitem.name>>)

\* C5, amended: an item that is not named after one of the six traits always
\* fails; the error is "unknown trait" with its name when read_items accepts
\* the item, and the error of read_items otherwise.
C5_UnknownTraitFails ==
  UnknownName =>
    /\ IsErr(ret)
    /\ WellFormed(metaitem) => ret = Err(<<"unknown trait", metaitem.name>>)
    /\ ~WellFormed(metaitem) =>
         ret \in {Err(<<"Expected named value">>), Err(<<"Expected string">>)}

\* C5 witness: derivative(Hash(k = "v")) on a field.
C5_Witness ==
  /\ scope = "field"
  /\ metaitem = ItemList("Hash", <<ChildStr>>)
  /\ ret = Err(<<"unknown trait", "Hash">>)

(***************************************************************************)
(* C6                                                                      *)
(***************************************************************************)
\* The option names of a trait, by scope (the tables of the specification).
Whitelist(s, t) ==
  {"bound"} \cup BoolOptions(s, t) \cup
    (IF s = "type" THEN {}
     ELSE CASE t = "Debug" -> {"format_with"}
            [] t = "Default" -> {"value"}
            [] t = "PartialEq" -> {"compare_with"}
            [] OTHER -> {})

\* The item is the shorthand Capability="key" of one of the six traits, and
\* the call has returned at it.
ShorthandAtReturn ==
  /\ pc = "done"
  /\ metaitem.kind = "NameValue"
  /\ metaitem.lit[1] = "Str"
  /\ metaitem.name \in InputTraits

NeedValue(s, t) ==
  IF t \notin KnownTraits(s) THEN {}
  ELSE {"bound"} \cup
       (IF s = "type" THEN {}
        ELSE CASE t = "Debug" -> {"format_with"}
               [] t = "Default" -> {"value"}
               [] t = "PartialEq" -> {"compare_with"}
               [] OTHER -> {})

NeedsAValue(n) ==
  CASE n = "bound" -> Err(<<"bound needs a value">>)
    [] n = "format_with" -> Err(<<"format_with needs a value">>)
    [] n = "value" -> Err(<<"value needs a value">>)
    [] n = "compare_with" -> Err(<<"compare_with needs a value">>)

\* C7 as stated: a block giving the option as a bare word, e.g.
\* derivative(Debug(format_with)), returns an error that names the option.
C7_Original ==
  (BareWordInList /\ metaitem.name \in KnownTraits(scope))
    => ret \in {NeedsAValue(n) : n \in NeedValue(scope, metaitem.name)}

\* C7, amended: an option that needs a value and reaches the option loop
\* without one (the shorthand, e.g. derivative(Debug="format_with")) makes
\* from_ast return "<option> needs a value"; a bare word inside the list
\* form is rejected by read_items with "Expected named value".
C7_MissingValueFails ==
  [][ /\ (pc = "values" /\ idx' = idx + 1 /\ value' = None
            /\ name' \in NeedValue(scope, trait))
          => (ret' = NeedsAValue(name') /\ pc' = "done")
      /\ (pc = "items" /\ metaitem'.kind = "List" /\ metaitem'.children # <<>>
            /\ Head(metaitem'.children) = ChildWord)
          => (ret' = Err(<<"Expected named value">>) /\ pc' = "done")
    ]_vars

\* C7 witness: derivative(Debug="format_with") on a field.
C7_Witness ==
  /\ scope = "field"
  /\ metaitem = ItemNameValue("Debug", LitStr("format_with"))
  /\ ret = Err(<<"format_with needs a value">>)

(***************************************************************************)
(* C8                                                                      *)
(***************************************************************************)
\* The options of the type scope that the field scope does not have.
TypeOnly == {<<"Clone", "clone_from">>, <<"Debug", "transparent">>, <<"Default", "new">>}

Accessors(i, t) ==
  CASE t = "Clone" -> <<Input_clone_bound(i)>>
    [] t = "Copy" -> <<Input_copy_bound(i)>>
    [] t = "Debug" -> <<Input_debug_bound(i), Input_debug_transparent(i)>>
    [] t = "Default" -> <<Input_default_bound(i)>>
    [] t = "Eq" -> <<Input_eq_bound(i)>>
    [] t = "PartialEq" -> <<Input_partial_eq_bound(i), Input_partial_eq_on_enum(i)>>

\* Input::from_ast returned Ok for a declaration whose derivative(...)
\* attributes hold one item, without options: derivative(C).
BareBlockParsed == Returned /\ scope = "type" /\ nodes = 1

\* C9 as stated: the accessors of C return on the Input of derivative(C)
\* something else than on the Input of a declaration without C, which is
\* Input_default.
C9_Original ==
  BareBlockParsed =>
    \A t \in seen : Accessors(input, t) # Accessors(Input_default, t)

\* C9, amended: after a successful Input::from_ast, a trait that was not
\* named has no sub-record, a trait whose sub-record holds the defaults (as
\* after the bare derivative(C)) has one, and the accessors of the trait
\* return the same in both cases: no bounds, flag false.  The pub fields of
\* Input tell the two apart, the accessors do not.
C9_AccessorsDoNotTellAbsent ==
  (Returned /\ scope = "type") =>
    \A t \in InputTraits :
      /\ t \notin seen =>
           /\ input[InputSlot(t)] = None
           /\ Accessors(input, t) = Accessors(Input_default, t)
      /\ (t \in seen /\ nodes = Cardinality(seen)) =>
           /\ input[InputSlot(t)] = Some(SubDefault(t))
           /\ Accessors(input, t) = Accessors(Input_default, t)

\* C9 witness: derivative(Clone) on a type.
C9_Witness ==
  /\ BareBlockParsed
  /\ seen = {"Clone"}
  /\ input.clone = Some(InputClone_default)
  /\ Input_clone_bound(input) = None

(***************************************************************************)
(* C10                                                                     *)
(***************************************************************************)
\* All the strings of bs are empty.
AllEmpty(bs) == \A i \in 1..Len(bs) : bs[i] = ""

\* C10 as stated: bound="" changes nothing of the configuration; a trait
\* whose only bound options were empty strings has its bounds absent, as
\* without them.
C10_Original ==
  Returned =>
    \A t \in KnownTraits(scope) :
      (given[t] # <<>> /\ AllEmpty(given[t])) => Bound(t) = None

\* The configuration as the call would return it.
Config == <<InputView, out>>

\* The configuration c with the bounds of trait t made present.
WithBounds(c, t) ==
  LET present(b) == IF b = None THEN Some(<<>>) ELSE b
  IN IF scope = "type"
     THEN <<[c[1] EXCEPT ![InputSlot(t)] = Some([@[1] EXCEPT !.bounds = present(@)])],
            c[2]>>
     ELSE <<c[1],
            CASE t = "Debug" -> [c[2] EXCEPT !.debug.bounds = present(@)]
              [] t = "Default" -> [c[2] EXCEPT !.default.bounds = present(@)]
              [] t = "Eq" -> [c[2] EXCEPT !.eq_bound = present(@)]
              [] t = "PartialEq" -> [c[2] EXCEPT !.partial_eq.bounds = present(@)]>>

\* The sub-record r (type scope) or the Field r (field scope) with the
\* bounds of trait t made present.
Present(t, r) ==
  IF scope = "type" THEN [r EXCEPT !.bounds = IF @ = None THEN Some(<<>>) ELSE @]
  ELSE WithBounds(<<InputView, r>>, t)[2]

\* C10, amended: for every trait the scope has an arm for, a round of the
\* option loop on bound="" succeeds and changes nothing of the configuration
\* but the trait's bounds, which become present with the elements they had
\* (none, when they were absent); and every later round, on any option,
\* fails or succeeds as it would have without it, with the same error or
\* with the same configuration up to these bounds being present.
C10_EmptyBoundOnlyMakesPresent ==
  [][ (pc = "values" /\ idx' = idx + 1 /\ name' = "bound" /\ value' = Some(""))
        => /\ ret' = Pending
           /\ Config' = WithBounds(Config, trait)
           /\ \A n \in Keys : \A v \in {None} \cup {Some(x) : x \in StrValues} :
                LET without == Round(n, v)
                    with == Round(n, v)'
                IN /\ with.ok = without.ok
                   /\ with.err = without.err
                   /\ without.ok => with.val = Present(trait, without.val)
    ]_vars

\* C10 witness: derivative(Clone(bound="")) on a type: the only bound of Clone is empty,
\* and clone_bound returns the empty sequence.
C10_Witness ==
  /\ scope = "type"
  /\ pc = "values"
  /\ trait = "Clone"
  /\ name = "bound" /\ value = Some("")
  /\ given["Clone"] = <<"">>
  /\ Bound("Clone") = Some(<<>>)

====
